---- MODULE Spec2Model ----
(***************************************************************************)
(* md-renderguard: the Mermaid block extraction and substitution engine of *)
(* src/src/converter.py as a state machine.                                *)
(*                                                                         *)
(* Text is a sequence of symbols.  A symbol is one character ("A", "\n",   *)
(* BT for the backtick) or, inside the image reference of a converted      *)
(* block, one literal fragment of the f-string that builds it (such as     *)
(* "<div style=\"").  No fragment contains a backtick and none starts or   *)
(* ends with whitespace, so the fence pattern and strip() read a text of   *)
(* symbols exactly as they read its characters; Len counts symbols.        *)
(*                                                                         *)
(* The specifications share the variables:                                 *)
(*   Spec          one run of process_markdown_file, from the call to the  *)
(*                 return, in a directory without image files;             *)
(*   RenderSpec    one call of generate_diagram_image with any backend,    *)
(*                 any format and anything at the output path;             *)
(*   NameSpec      calls of create_image_name in a row;                    *)
(*   ClassifySpec  one call of _determine_diagram_type on any text;        *)
(*   RerunSpec     runs of process_markdown_file in a row on one document; *)
(*   CliSpec       main() of src/src/main.py around one run;               *)
(*   GuiSpec       the window of src/src/gui.py with its worker thread,    *)
(*                 FairGuiSpec the same with the threads scheduled fairly. *)
(***************************************************************************)
EXTENDS Integers, Sequences, FiniteSets, TLC

\* ------------------------------------------------------------------ bounds

\* Largest number of pieces a generated document is concatenated from.
MaxPieces == 4

\* ------------------------------------------------------------ text helpers

NONE == "None"

\* Python's \s and str.isspace() on the characters of the model.
IsSpace(c) == c \in {"\n", " ", "\t"}

RECURSIVE LStrip(_)
LStrip(s) == IF s /= <<>> /\ IsSpace(Head(s)) THEN LStrip(Tail(s)) ELSE s

RECURSIVE RStrip(_)
RStrip(s) ==
    IF s /= <<>> /\ IsSpace(s[Len(s)]) THEN RStrip(SubSeq(s, 1, Len(s) - 1)) ELSE s

\* str.strip()
Strip(s) == LStrip(RStrip(s))

\* s[p-1:].startswith(lit): lit occurs in s at the 1-based position p.
StartsWithAt(s, p, lit) ==
    /\ p >= 1
    /\ p + Len(lit) - 1 <= Len(s)
    /\ SubSeq(s, p, p + Len(lit) - 1) = lit

RECURSIVE Concat(_)
Concat(ss) == IF ss = <<>> THEN <<>> ELSE Head(ss) \o Concat(Tail(ss))

\* ------------------------------------------------- extract_mermaid_blocks

\* The backtick character (SANY reads no backtick inside a string literal).
BT == "bt"

FENCE == <<BT, BT, BT>>
OPEN_FENCE == FENCE \o <<"m", "e", "r", "m", "a", "i", "d">>

\* \s+ is greedy: the first position at or after p that holds no whitespace.
RECURSIVE SkipSpace(_, _)
SkipSpace(s, p) == IF p <= Len(s) /\ IsSpace(s[p]) THEN SkipSpace(s, p + 1) ELSE p

\* Variant: (.*)``` greedy, the last closing fence at or after p.
RECURSIVE FindFence_Last(_, _)
FindFence_Last(s, p) ==
    IF p + Len(FENCE) - 1 > Len(s) THEN 0
    ELSE LET later == FindFence_Last(s, p + 1)
         IN  IF later /= 0 THEN later
             ELSE IF StartsWithAt(s, p, FENCE) THEN p ELSE 0

\* (.*?)``` is lazy: the first closing fence at or after p, 0 when there is none.
RECURSIVE FindFence(_, _)
FindFence(s, p) ==
    IF p + Len(FENCE) - 1 > Len(s) THEN 0
    ELSE IF StartsWithAt(s, p, FENCE) THEN p
    ELSE FindFence(s, p + 1)

\* One attempt of the pattern ```mermaid\s+(.*?)``` at position p (re.DOTALL).
\* A closing fence cannot start inside the whitespace run, so backtracking \s+
\* finds no match the greedy run does not find.
MatchAt(s, p) ==
    LET q == SkipSpace(s, p + Len(OPEN_FENCE))
        c == IF q > p + Len(OPEN_FENCE) THEN FindFence(s, q) ELSE 0
    IN  IF StartsWithAt(s, p, OPEN_FENCE) /\ c /= 0
        THEN [found |-> TRUE,
              block |-> [block_text |-> Strip(SubSeq(s, q, c - 1)),
                         start_pos |-> p - 1,
                         end_pos |-> c + Len(FENCE) - 1]]
        ELSE [found |-> FALSE]

\* Variant: the scan resumes one character after the start of the last match.
RECURSIVE FindIter_Overlapping(_, _)
FindIter_Overlapping(s, p) ==
    IF p > Len(s) THEN <<>>
    ELSE LET m == MatchAt(s, p)
         IN  IF m.found
             THEN <<m.block>> \o FindIter_Overlapping(s, p + 1)
             ELSE FindIter_Overlapping(s, p + 1)

\* re.finditer: leftmost matches, each scan resuming where the last match ended.
RECURSIVE FindIter(_, _)
FindIter(s, p) ==
    IF p > Len(s) THEN <<>>
    ELSE LET m == MatchAt(s, p)
         IN  IF m.found
             THEN <<m.block>> \o FindIter(s, m.block.end_pos + 1)
             ELSE FindIter(s, p + 1)

extract_mermaid_blocks(markdown_content) == FindIter(markdown_content, 1)

\* ------------------------------------------------ _determine_diagram_type

COMMENT_MARK == <<"%", "%">>

\* The keyword table, in the dict's insertion order.
type_map ==
    << [keyword |-> <<"s", "e", "q", "u", "e", "n", "c", "e", "D", "i", "a", "g", "r", "a", "m">>, type |-> "sequence"],
       [keyword |-> <<"c", "l", "a", "s", "s", "D", "i", "a", "g", "r", "a", "m">>, type |-> "classdiagram"],
       [keyword |-> <<"s", "t", "a", "t", "e", "D", "i", "a", "g", "r", "a", "m", "-", "v", "2">>, type |-> "statediagram"],
       [keyword |-> <<"s", "t", "a", "t", "e", "D", "i", "a", "g", "r", "a", "m">>, type |-> "statediagram"],
       [keyword |-> <<"e", "r", "D", "i", "a", "g", "r", "a", "m">>, type |-> "erdiagram"],
       [keyword |-> <<"j", "o", "u", "r", "n", "e", "y">>, type |-> "journey"],
       [keyword |-> <<"g", "a", "n", "t", "t">>, type |-> "gantt"],
       [keyword |-> <<"p", "i", "e">>, type |-> "pie"],
       [keyword |-> <<"f", "l", "o", "w", "c", "h", "a", "r", "t">>, type |-> "flowchart"],
       [keyword |-> <<"g", "r", "a", "p", "h">>, type |-> "flowchart"],
       [keyword |-> <<"r", "e", "q", "u", "i", "r", "e", "m", "e", "n", "t", "D", "i", "a", "g", "r", "a", "m">>, type |-> "requirement"],
       [keyword |-> <<"g", "i", "t", "G", "r", "a", "p", "h">>, type |-> "gitgraph"] >>

\* str.splitlines() on the line break of the model.
RECURSIVE SplitLines(_, _)
SplitLines(s, cur) ==
    IF s = <<>> THEN (IF cur = <<>> THEN <<>> ELSE <<cur>>)
    ELSE IF Head(s) = "\n" THEN <<cur>> \o SplitLines(Tail(s), <<>>)
    ELSE SplitLines(Tail(s), Append(cur, Head(s)))

\* Variant: a comment line counts as the first line.
RECURSIVE FirstSignificantLine_CommentsKept(_)
FirstSignificantLine_CommentsKept(lines) ==
    IF lines = <<>> THEN <<>>
    ELSE LET stripped_line == Strip(Head(lines))
         IN  IF stripped_line /= <<>>
             THEN stripped_line
             ELSE FirstSignificantLine_CommentsKept(Tail(lines))

\* The first stripped line that is neither empty nor a %% comment, "" if none.
RECURSIVE FirstSignificantLine(_)
FirstSignificantLine(lines) ==
    IF lines = <<>> THEN <<>>
    ELSE LET stripped_line == Strip(Head(lines))
         IN  IF stripped_line /= <<>> /\ ~StartsWithAt(stripped_line, 1, COMMENT_MARK)
             THEN stripped_line
             ELSE FirstSignificantLine(Tail(lines))

\* The loop over type_map.items(): the first keyword the line starts with.
RECURSIVE LookupType(_, _)
LookupType(line, k) ==
    IF k > Len(type_map) THEN "flowchart"
    ELSE IF StartsWithAt(line, 1, type_map[k].keyword) THEN type_map[k].type
    ELSE LookupType(line, k + 1)

determine_diagram_type(mermaid_code) ==
    IF mermaid_code = <<>> THEN "flowchart"
    ELSE LookupType(FirstSignificantLine(SplitLines(Strip(mermaid_code), <<>>)), 1)

\* ------------------------------------------------------ create_image_name

\* The digest values the model tells apart (hexdigest()[:8] has 16^8 of them).
HashSpace == 7

\* The characters re's \w matches.
WordChars ==
    { "a", "b", "c", "d", "e", "f", "g", "h", "i", "j", "k", "l", "m", "n", "o", "p", "q", "r", "s", "t", "u", "v", "w", "x", "y", "z",
      "A", "B", "C", "D", "E", "F", "G", "H", "I", "J", "K", "L", "M", "N", "O", "P", "Q", "R", "S", "T", "U", "V", "W", "X", "Y", "Z",
      "0", "1", "2", "3", "4", "5", "6", "7", "8", "9", "_" }

\* Variant: the path separator is kept as well.
IsSafeChar_SlashKept(c) == c \in WordChars \cup {"-", ".", "/"}

\* The characters re.sub(r"[^\w\-.]+", "", prefix) keeps.
IsSafeChar(c) == c \in WordChars \cup {"-", "."}

\* The code of a character: its place in this table, 0 for any other symbol.
CodeTable ==
    << "\n", " ", "A", "p", "i", "e", "g", "r", "a", "h", "m", "d", "-", ">", "%", BT >>

CharCode(c) ==
    IF \E k \in 1..Len(CodeTable) : CodeTable[k] = c
    THEN CHOOSE k \in 1..Len(CodeTable) : CodeTable[k] = c
    ELSE 0

\* hashlib.md5(text).hexdigest()[:8]: a digest of the whole text into a space
\* in which, as in 32 bits, different texts can meet.
RECURSIVE Digest(_, _)
Digest(text, k) ==
    IF k > Len(text) THEN 0
    ELSE (k * CharCode(text[k]) + 3 * Digest(text, k + 1)) % HashSpace

Md5Hex8(text) == "h" \o ToString(Digest(text, 1))

\* str.lower() on a format name.
Lower(image_format) ==
    CASE image_format = "SVG" -> "svg"
      [] image_format = "PNG" -> "png"
      [] OTHER -> image_format

DEFAULT_PREFIX == <<"d", "i", "a", "g", "r", "a", "m">>

\* Variant: the index is left out of the name.
create_image_name_IndexDropped(prefix, index, mermaid_code, image_format) ==
    LET code_hash == Md5Hex8(mermaid_code)
        sanitized == SelectSeq(prefix, IsSafeChar)
        safe_prefix == IF sanitized = <<>> THEN DEFAULT_PREFIX ELSE sanitized
    IN  safe_prefix \o <<"-", code_hash, ".", Lower(image_format)>>

create_image_name(prefix, index, mermaid_code, image_format) ==
    LET code_hash == Md5Hex8(mermaid_code)
        sanitized == SelectSeq(prefix, IsSafeChar)
        safe_prefix == IF sanitized = <<>> THEN DEFAULT_PREFIX ELSE sanitized
    IN  safe_prefix \o <<"-", ToString(index), "-", code_hash, ".", Lower(image_format)>>

\* ------------------------------------------------------------ path helpers

\* The directory of the input document and the default image directory in it.
output_md_dir == <<"/docs">>
abs_image_dir == output_md_dir \o <<"/", "images">>

\* os.path.join(abs_image_dir, image_name)
JoinPath(dir, name) == dir \o <<"/">> \o name

\* Variant: the relative path comes out empty.
RelPath_Blank(path, start) == <<>>

\* os.path.relpath(path, start) for a path below start; the file URI otherwise.
RelPath(path, start) ==
    IF StartsWithAt(path, 1, start \o <<"/">>)
    THEN SubSeq(path, Len(start) + 2, Len(path))
    ELSE <<"file://">> \o path

\* A missing relative path (Python's None; the code tests only its truth).
NoPath == <<>>

\* ------------------------------------------------------ load_diagram_config

default_config ==
    [default      |-> [max_width |-> "600px", max_height |-> NONE, min_width |-> NONE],
     flowchart    |-> [max_width |-> "650px", max_height |-> NONE, min_width |-> "300px"],
     sequence     |-> [max_width |-> "550px", max_height |-> NONE, min_width |-> "250px"],
     classdiagram |-> [max_width |-> "600px", max_height |-> NONE, min_width |-> "300px"],
     statediagram |-> [max_width |-> "550px", max_height |-> NONE, min_width |-> "250px"],
     erdiagram    |-> [max_width |-> "700px", max_height |-> NONE, min_width |-> "400px"],
     gantt        |-> [max_width |-> "800px", max_height |-> NONE, min_width |-> "500px"],
     pie          |-> [max_width |-> "450px", max_height |-> "450px", min_width |-> "300px"]]

\* diagram_config.get(diagram_type, diagram_config.get("default", {}))
ConfigFor(diagram_config, diagram_type) ==
    IF diagram_type \in DOMAIN diagram_config THEN diagram_config[diagram_type]
    ELSE IF "default" \in DOMAIN diagram_config THEN diagram_config["default"]
    ELSE [max_width |-> "600px"]

\* ------------------------------------- replace_mermaid_with_images_enhanced

\* The image reference of a converted block: the HTML wrapper or plain Markdown.
SuccessReplacement(block_text, relative_image_path, diagram_config, use_html_wrapper) ==
    LET diagram_type == determine_diagram_type(block_text)
        max_width == ConfigFor(diagram_config, diagram_type).max_width
        div_style ==
            IF max_width /= NONE /\ max_width /= ""
            THEN <<"max-width:", " ", max_width, ";", " ",
                   "margin: 1em auto; text-align: center;">>
            ELSE <<"margin: 1em auto; text-align: center;">>
    IN  IF use_html_wrapper
        THEN <<"\n", "\n", "<div style=\"">> \o div_style \o <<"\">", "\n">>
             \o <<" ", " ", " ", " ", "<img src=\"">> \o relative_image_path
             \o <<"\" alt=\"Mermaid Diagram:", " ", diagram_type,
                  "\" style=\"max-width: 100%; height: auto; display: block; margin: 0 auto;\" />",
                  "\n", "</div>", "\n", "\n">>
        ELSE <<"\n", "\n", "![Mermaid Diagram:", " ", diagram_type, "](">>
             \o relative_image_path \o <<")", "\n", "\n">>

\* Variant: the block is fenced again without the mermaid tag.
FailureReplacement_TagDropped(block_text) ==
    <<"\n", "\n", "\n">> \o FENCE \o <<"\n">> \o Strip(block_text)
    \o <<"\n">> \o FENCE \o <<"\n", "\n">>

\* The original block, fenced again, after the (one line break) warning comment.
FailureReplacement(block_text) ==
    LET warning_comment == <<"\n">>
        original_block_formatted ==
            OPEN_FENCE \o <<"\n">> \o Strip(block_text) \o <<"\n">> \o FENCE \o <<"\n">>
    IN  <<"\n", "\n">> \o warning_comment \o original_block_formatted \o <<"\n">>

\* Variant: the success branch is never taken.
ReplacementText_NeverConverted(block, info, diagram_config, use_html_wrapper) ==
    FailureReplacement(block.block_text)

\* replacement_text of one iteration, for the block and its recorded outcome.
ReplacementText(block, info, diagram_config, use_html_wrapper) ==
    IF info.success_flag /\ info.relative_image_path /= NoPath
    THEN SuccessReplacement(block.block_text, info.relative_image_path,
                            diagram_config, use_html_wrapper)
    ELSE FailureReplacement(block.block_text)

\* A slice index as Python reads it: counted from the end when negative, then
\* clamped to the text.
SliceIndex(text, k) ==
    IF k < 0 THEN (IF k + Len(text) < 0 THEN 0 ELSE k + Len(text))
    ELSE IF k > Len(text) THEN Len(text) ELSE k

\* text[lo:hi]
Slice(text, lo, hi) == SubSeq(text, SliceIndex(text, lo) + 1, SliceIndex(text, hi))

\* Variant: the tail is taken one character early, new_content[adj_end - 1:].
Splice_TailOneEarly(text, adj_start, adj_end, replacement_text) ==
    Slice(text, 0, adj_start) \o replacement_text \o Slice(text, adj_end - 1, Len(text))

\* new_content[:adj_start] + replacement_text + new_content[adj_end:]
Splice(text, adj_start, adj_end, replacement_text) ==
    Slice(text, 0, adj_start) \o replacement_text \o Slice(text, adj_end, Len(text))

\* Variant: the length of the replaced span is not subtracted.
NextOffset_SpanForgotten(off, replacement_text, block) == off + Len(replacement_text)

\* offset += len(replacement_text) - (end_pos - start_pos)
NextOffset(off, replacement_text, block) ==
    off + Len(replacement_text) - (block.end_pos - block.start_pos)

\* ------------------------------------------------------ file system, errors

\* What is at a path: no file, a file of length zero, a file with bytes.
FileStates == {"absent", "empty", "nonempty"}

\* The files below the image directory, by path; a path not listed is absent.
FileAt(fs, path) == IF path \in DOMAIN fs THEN fs[path] ELSE "absent"

SetFile(fs, path, st) ==
    [q \in (DOMAIN fs \ {path}) \cup (IF st = "absent" THEN {} ELSE {path}) |->
        IF q = path THEN st ELSE fs[q]]

\* The base class of each exception class that can be raised in a backend.
ExceptionBase ==
    [ConnectionError  |-> "RequestException",
     Timeout          |-> "RequestException",
     HTTPError        |-> "RequestException",
     RequestException |-> "OSError",
     OSError          |-> "Exception",
     RuntimeError     |-> "Exception",
     Exception        |-> "BaseException"]

\* isinstance(exc, cls)
RECURSIVE IsInstance(_, _)
IsInstance(exc, cls) ==
    \/ exc = cls
    \/ exc \in DOMAIN ExceptionBase /\ IsInstance(ExceptionBase[exc], cls)

\* An exception is caught when one of the except clauses names a class of it.
Caught(exc, handlers) == \E k \in 1..Len(handlers) : IsInstance(exc, handlers[k])

\* What a backend call comes to: the value returned, whether an exception left
\* the function, and what is at the output path afterwards.
Returns(ok, file) == [success |-> ok, raised |-> FALSE, file |-> file]
Raises(file) == [success |-> FALSE, raised |-> TRUE, file |-> file]

\* os.path.exists(output_path), then os.remove in its try/except OSError.
RemoveIfExists(file, remove_fails) ==
    IF file = "absent" \/ remove_fails THEN file ELSE "absent"

\* --------------------------------------- generate_image_from_mermaid_library

\* What the python-mermaid library does during one call: Graph(...) or
\* md.Mermaid(...) raising, what to_svg/to_png leaves at the output path and
\* whether it raises, and os.remove failing on an empty file it left.
LibraryScenarios ==
    {[backend |-> "library", graph_raises |-> TRUE, init_raises |-> FALSE,
      render_writes |-> "nothing", render_raises |-> FALSE, remove_fails |-> FALSE],
     [backend |-> "library", graph_raises |-> FALSE, init_raises |-> TRUE,
      render_writes |-> "nothing", render_raises |-> FALSE, remove_fails |-> FALSE]}
    \cup
    {[backend |-> "library", graph_raises |-> FALSE, init_raises |-> FALSE,
      render_writes |-> w, render_raises |-> r, remove_fails |-> FALSE] :
        w \in {"nothing", "empty", "nonempty"}, r \in BOOLEAN}
    \cup
    {[backend |-> "library", graph_raises |-> FALSE, init_raises |-> FALSE,
      render_writes |-> "empty", render_raises |-> r, remove_fails |-> TRUE] :
        r \in BOOLEAN}

\* The except clauses of the outer try of the library backend.
library_handlers == <<"Exception">>

\* Variant: the size of the output file is not looked at.
LibraryVerify_SizeUnchecked(generation_success, file, remove_fails) ==
    IF generation_success /\ file /= "absent"
    THEN Returns(TRUE, file)
    ELSE Returns(FALSE, RemoveIfExists(file, remove_fails))

\* 5. Verify Output: success needs the file to exist and to hold bytes; a file
\* left by a failed render is removed.
LibraryVerify(generation_success, file, remove_fails) ==
    IF generation_success /\ file /= "absent" /\ file = "nonempty"
    THEN Returns(TRUE, file)
    ELSE Returns(FALSE, RemoveIfExists(file, remove_fails))

generate_image_from_mermaid_library(available, image_format, sc, file_before) ==
    IF ~available THEN Returns(FALSE, file_before)
    ELSE IF sc.graph_raises
         THEN (IF Caught("RuntimeError", library_handlers)
               THEN Returns(FALSE, file_before) ELSE Raises(file_before))
    ELSE IF sc.init_raises THEN Returns(FALSE, file_before)
    ELSE LET output_format == Lower(image_format)
             supported == output_format \in {"svg", "png"}
             rendered ==
                 IF supported /\ sc.render_writes /= "nothing"
                 THEN sc.render_writes ELSE file_before
             generation_success == supported /\ ~sc.render_raises
         IN  LibraryVerify(generation_success, rendered, sc.remove_fails)

\* ------------------------------------------------- generate_image_with_kroki

\* The status codes a response is drawn from.
StatusCodes == {200, 304, 404, 500}

\* What the network and the disk do during one call: the URL being no http
\* URL, requests.post raising, or a response with a status and a body; then
\* open/write succeeding, open failing, or the write failing with the file
\* created and nothing in it; and os.remove failing on an empty file.
KrokiScenarios ==
    {[backend |-> "kroki", url_ok |-> FALSE, request |-> "response", status |-> 200,
      body |-> "nonempty", write |-> "ok", remove_fails |-> FALSE]}
    \cup
    {[backend |-> "kroki", url_ok |-> TRUE, request |-> q, status |-> 200,
      body |-> "nonempty", write |-> "ok", remove_fails |-> FALSE] :
        q \in {"ConnectionError", "Timeout", "RequestException"}}
    \cup
    {[backend |-> "kroki", url_ok |-> TRUE, request |-> "response", status |-> s,
      body |-> b, write |-> "ok", remove_fails |-> FALSE] :
        s \in StatusCodes, b \in {"empty", "nonempty"}}
    \cup
    {[backend |-> "kroki", url_ok |-> TRUE, request |-> "response", status |-> 200,
      body |-> "empty", write |-> "ok", remove_fails |-> TRUE]}
    \cup
    {[backend |-> "kroki", url_ok |-> TRUE, request |-> "response", status |-> 200,
      body |-> "nonempty", write |-> w, remove_fails |-> FALSE] :
        w \in {"open_fails", "write_fails"}}

\* The except clauses of the HTTP backend, in order.
kroki_handlers ==
    <<"ConnectionError", "Timeout", "HTTPError", "RequestException", "Exception">>

\* response.raise_for_status(): HTTPError for a 4xx or 5xx status, nothing else.
RaiseForStatus(status) == IF status >= 400 /\ status < 600 THEN "HTTPError" ELSE NONE

\* The exception the body of the try meets first (NONE when it runs through),
\* with the file the body leaves at the output path.
KrokiTry(sc, file_before) ==
    IF sc.request /= "response" THEN [exc |-> sc.request, file |-> file_before]
    ELSE IF RaiseForStatus(sc.status) /= NONE
         THEN [exc |-> RaiseForStatus(sc.status), file |-> file_before]
    ELSE CASE sc.write = "open_fails"  -> [exc |-> "OSError", file |-> file_before]
           [] sc.write = "write_fails" -> [exc |-> "OSError", file |-> "empty"]
           [] OTHER                    -> [exc |-> NONE, file |-> sc.body]

\* The except clauses (each returns False) and 4. Verify Output File.
KrokiOutcome(try, remove_fails) ==
    IF try.exc /= NONE
    THEN (IF Caught(try.exc, kroki_handlers)
          THEN Returns(FALSE, try.file) ELSE Raises(try.file))
    ELSE IF try.file /= "absent" /\ try.file = "nonempty" THEN Returns(TRUE, try.file)
    ELSE Returns(FALSE, RemoveIfExists(try.file, remove_fails))

generate_image_with_kroki(sc, file_before) ==
    IF ~sc.url_ok THEN Returns(FALSE, file_before)
    ELSE KrokiOutcome(KrokiTry(sc, file_before), sc.remove_fails)

\* --------------------------------------------------- generate_diagram_image

\* No backend runs for a method that is neither library nor kroki.
NoScenario == [backend |-> "none"]

\* The scenarios of the backend a method selects.
Scenarios(m) ==
    CASE m = "library" -> LibraryScenarios
      [] m = "kroki"   -> KrokiScenarios
      [] OTHER         -> {NoScenario}

\* Variant: an unknown method raises.
UnknownMethod_Raises(file_before) == Raises(file_before)

\* The else branch of the dispatcher.
UnknownMethod(file_before) == Returns(FALSE, file_before)

generate_diagram_image(m, available, image_format, sc, file_before) ==
    CASE m = "library" ->
             generate_image_from_mermaid_library(available, image_format, sc, file_before)
      [] m = "kroki"   -> generate_image_with_kroki(sc, file_before)
      [] OTHER         -> UnknownMethod(file_before)

\* ------------------------------------------------------------ environment

\* A fenced pie chart: ```mermaid, line break, pie, line break, ```.
PIE_BLOCK == OPEN_FENCE \o <<"\n", "p", "i", "e", "\n">> \o FENCE

\* What a document is concatenated from: an opening fence, a bare fence, a
\* line break, a letter, a whole block.
Pieces == {OPEN_FENCE, FENCE, <<"\n">>, <<"A">>, PIE_BLOCK}

Docs == {Concat(ps) : ps \in UNION {[1..n -> Pieces] : n \in 0..MaxPieces}}

\* The input path: no file, a file that cannot be read, a file with its text.
InputFiles ==
    {[kind |-> "missing", content |-> <<>>], [kind |-> "unreadable", content |-> <<>>]}
    \cup {[kind |-> "file", content |-> d] : d \in Docs}

\* method with MERMAID_AVAILABLE, which is read only for method = "library".
Backends ==
    {[method |-> "library", available |-> TRUE],
     [method |-> "library", available |-> FALSE],
     [method |-> "kroki", available |-> FALSE],
     [method |-> "other", available |-> FALSE]}

\* The types of the keyword arguments that are used without a check: a
\* config_path_input that is no path makes load_diagram_config raise, an
\* image_prefix that is no string makes create_image_name raise.
KwargTypes ==
    {[config_path_input |-> "str", image_prefix |-> "str"],
     [config_path_input |-> "int", image_prefix |-> "str"],
     [config_path_input |-> "str", image_prefix |-> "NoneType"]}

\* No call of generate_diagram_image is under way.
Idle == [backend |-> "idle"]

\* ------------------------------------------------------------------- state

VARIABLES
    pc,                   \* the step process_markdown_file is at
    method,               \* its method argument
    MERMAID_AVAILABLE,    \* the module flag set at import
    kwargs,               \* the types of its unchecked keyword arguments
    input_file,           \* what is at file_path
    image_dir_state,      \* the image directory: absent, blocked, present
    stats,                \* the result dictionary
    content,              \* the text read from the file
    diagram_config,       \* the loaded styling configuration
    mermaid_blocks,       \* extract_mermaid_blocks(content)
    image_paths_info,     \* one (relative_image_path, success_flag) per block
    all_successful_flag,
    i,                    \* index of the block the loop is at (1-based)
    image_name,           \* create_image_name of the block at hand
    success,              \* what generate_diagram_image returned for it
    use_html_wrapper,     \* the keyword argument, read at the rebuild
    new_content,          \* the rebuilder's text
    offset,               \* the rebuilder's running length delta
    successful_replacements,
    ri,                   \* index of the block the rebuilder is at (1-based)
    dispatched,           \* history: the block indices handed to the backend
    render_results,       \* history: what the backend returned, in order
    image_format,         \* the image_format keyword argument
    files,                \* the files below the image directory
    scenario,             \* what library, network and disk did in the call at hand
    name_calls,           \* history: the calls of create_image_name, with their results
    type_call,            \* one call of _determine_diagram_type: argument and result
    earlier_runs,         \* history: what the earlier runs of process_markdown_file returned
    cli,                  \* the command line program: its step, flags, files and exit code
    gui                   \* the window: its flag, button, threads and scheduled callbacks

vars ==
    <<pc, method, MERMAID_AVAILABLE, kwargs, input_file, image_dir_state, stats,
      content, diagram_config, mermaid_blocks, image_paths_info,
      all_successful_flag, i, image_name, success, use_html_wrapper, new_content,
      offset, successful_replacements, ri, dispatched, render_results,
      image_format, files, scenario, name_calls, type_call,
      earlier_runs, cli, gui>>

env == <<method, MERMAID_AVAILABLE, kwargs, input_file, image_format>>
loop_vars == <<image_paths_info, all_successful_flag, i, image_name, success>>
rebuild_vars == <<use_html_wrapper, new_content, offset, successful_replacements, ri>>
history == <<dispatched, render_results>>

\* What a run of process_markdown_file reads or writes.
pipeline ==
    <<pc, env, image_dir_state, files, scenario, stats, content, diagram_config,
      mermaid_blocks, loop_vars, rebuild_vars, history>>

\* What is recorded about calls made outside a run.
beyond == <<type_call, earlier_runs, cli, gui>>
outside == <<name_calls, beyond>>

\* No call of _determine_diagram_type is recorded.
NoTypeCall == [mermaid_code |-> <<>>, returned |-> FALSE, type |-> NONE]

\* The command line program is not running.
NoCli ==
    [step |-> "idle", move_original |-> FALSE, output_document |-> "absent",
     original |-> "in place", rolled_back |-> FALSE, rk |-> 1, undeleted |-> {},
     exit_code |-> NONE]

\* No result is at hand.
NoResult ==
    [kind |-> "none", error |-> FALSE, total_diagrams |-> 0,
     all_conversions_successful |-> FALSE]

\* MermaidConverterGUI after __init__, with the window shown.
NewWindow ==
    [window |-> "open", is_processing |-> FALSE, convert_button |-> "normal",
     ui |-> "idle", running |-> 0, after_queue |-> <<>>, pending |-> NoResult,
     clicks |-> 0, started |-> 0, handed |-> 0, resets |-> 0, last |-> "none"]

\* No window was made.
NoGui == [NewWindow EXCEPT !.window = "none"]

BeyondIdle ==
    /\ type_call = NoTypeCall
    /\ earlier_runs = <<>>
    /\ cli = NoCli
    /\ gui = NoGui

\* The stats dictionary as process_markdown_file initialises it.
InitialStats(m) ==
    [method_used |-> m,
     total_diagrams |-> 0,
     successful_conversions |-> 0,
     failed_conversions |-> 0,
     output_file_path |-> <<>>,
     image_directory |-> <<>>,
     all_conversions_successful |-> FALSE,
     generated_image_paths |-> <<>>,
     new_content |-> <<>>,
     error |-> NONE]

\* The arguments and the locals at the call of process_markdown_file.
PipelineInit ==
    /\ pc = "start"
    /\ \E b \in Backends : method = b.method /\ MERMAID_AVAILABLE = b.available
    /\ kwargs \in KwargTypes
    /\ input_file \in InputFiles
    /\ image_dir_state \in {"absent", "blocked"}
    /\ stats = InitialStats(method)
    /\ content = <<>>
    /\ diagram_config = <<>>
    /\ mermaid_blocks = <<>>
    /\ image_paths_info = <<>>
    /\ all_successful_flag = TRUE
    /\ i = 1
    /\ image_name = <<>>
    /\ success = FALSE
    /\ use_html_wrapper = TRUE
    /\ new_content = <<>>
    /\ offset = 0
    /\ successful_replacements = 0
    /\ ri = 1
    /\ dispatched = <<>>
    /\ render_results = <<>>
    /\ image_format = "svg"
    /\ files = <<>>
    /\ scenario = Idle

Init ==
    /\ PipelineInit
    /\ name_calls = <<>>
    /\ BeyondIdle

\* ---------------------------------------------------- process_markdown_file

\* 1. Validate chosen method and dependencies.
CheckMethod ==
    /\ pc = "start"
    /\ IF method = "library" /\ ~MERMAID_AVAILABLE
       THEN /\ stats' = [stats EXCEPT !.error = "library not available"]
            /\ pc' = "returned"
       ELSE /\ pc' = "config"
            /\ UNCHANGED stats
    /\ UNCHANGED <<env, outside, image_dir_state, files, scenario, content, diagram_config, mermaid_blocks,
                   loop_vars, rebuild_vars, history>>

\* 2. load_diagram_config(kwargs.get("config_path_input")): os.path.abspath of
\* a value that is no path raises before the function's own try.
LoadConfig ==
    /\ pc = "config"
    /\ IF kwargs.config_path_input /= "str"
       THEN /\ pc' = "raised"
            /\ UNCHANGED diagram_config
       ELSE /\ pc' = "validate"
            /\ diagram_config' = default_config
    /\ UNCHANGED <<env, outside, image_dir_state, files, scenario, stats, content, mermaid_blocks,
                   loop_vars, rebuild_vars, history>>

\* os.path.isfile(abs_file_path)
ValidateInput ==
    /\ pc = "validate"
    /\ IF input_file.kind = "missing"
       THEN /\ stats' = [stats EXCEPT !.error = "not a file"]
            /\ pc' = "returned"
       ELSE /\ pc' = "read"
            /\ UNCHANGED stats
    /\ UNCHANGED <<env, outside, image_dir_state, files, scenario, content, diagram_config, mermaid_blocks,
                   loop_vars, rebuild_vars, history>>

\* Variant: the image directory is made before the file is read.
ReadFile_DirectoryFirst ==
    /\ pc = "read"
    /\ image_dir_state' = IF image_dir_state = "blocked" THEN "blocked" ELSE "present"
    /\ IF input_file.kind = "unreadable"
       THEN /\ stats' = [stats EXCEPT !.error = "failed to read"]
            /\ pc' = "returned"
            /\ UNCHANGED content
       ELSE /\ content' = input_file.content
            /\ stats' = [stats EXCEPT !.new_content = input_file.content]
            /\ pc' = "extract"
    /\ UNCHANGED <<env, outside, files, scenario, diagram_config, mermaid_blocks,
                   loop_vars, rebuild_vars, history>>

\* open(...).read() in its try/except.
ReadFile ==
    /\ pc = "read"
    /\ IF input_file.kind = "unreadable"
       THEN /\ stats' = [stats EXCEPT !.error = "failed to read"]
            /\ pc' = "returned"
            /\ UNCHANGED content
       ELSE /\ content' = input_file.content
            /\ stats' = [stats EXCEPT !.new_content = input_file.content]
            /\ pc' = "extract"
    /\ UNCHANGED <<env, outside, image_dir_state, files, scenario, diagram_config, mermaid_blocks,
                   loop_vars, rebuild_vars, history>>

\* Variant: the flag is left as initialised.
NoOpStats_FlagUnset(st) == st

\* The early return of a document without blocks.
NoOpStats(st) == [st EXCEPT !.all_conversions_successful = TRUE]

\* Variant: the image directory is made while the blocks are extracted.
ExtractBlocks_DirectoryFirst ==
    /\ pc = "extract"
    /\ mermaid_blocks' = extract_mermaid_blocks(content)
    /\ image_dir_state' = IF image_dir_state = "blocked" THEN "blocked" ELSE "present"
    /\ LET counted == [stats EXCEPT !.total_diagrams = Len(mermaid_blocks')]
       IN  IF mermaid_blocks' = <<>>
           THEN /\ stats' = NoOpStats(counted)
                /\ pc' = "returned"
           ELSE /\ stats' = counted
                /\ pc' = "mkdir"
    /\ UNCHANGED <<env, outside, files, scenario, content, diagram_config,
                   loop_vars, rebuild_vars, history>>

ExtractBlocks ==
    /\ pc = "extract"
    /\ mermaid_blocks' = extract_mermaid_blocks(content)
    /\ LET counted == [stats EXCEPT !.total_diagrams = Len(mermaid_blocks')]
       IN  IF mermaid_blocks' = <<>>
           THEN /\ stats' = NoOpStats(counted)
                /\ pc' = "returned"
           ELSE /\ stats' = counted
                /\ pc' = "mkdir"
    /\ UNCHANGED <<env, outside, image_dir_state, files, scenario, content, diagram_config,
                   loop_vars, rebuild_vars, history>>

\* Variant: no except branch, the OSError leaves the function.
DirErrorOutcome_Propagates(st) == [pc |-> "raised", stats |-> st]

\* The except branch around create_image_directory.
DirErrorOutcome(st) ==
    [pc |-> "returned", stats |-> [st EXCEPT !.error = "failed to create image directory"]]

\* create_image_directory in its try/except: os.makedirs(..., exist_ok=True).
PrepareImageDirectory ==
    /\ pc = "mkdir"
    /\ IF image_dir_state = "blocked"
       THEN /\ pc' = DirErrorOutcome(stats).pc
            /\ stats' = DirErrorOutcome(stats).stats
            /\ UNCHANGED image_dir_state
       ELSE /\ image_dir_state' = "present"
            /\ stats' = [stats EXCEPT !.image_directory = abs_image_dir]
            /\ pc' = "name"
    /\ UNCHANGED <<env, outside, files, scenario, content, diagram_config, mermaid_blocks,
                   loop_vars, rebuild_vars, history>>

\* Variant: every block is named with index 1.
SynthesizeName_IndexFixed ==
    /\ pc = "name"
    /\ IF kwargs.image_prefix /= "str"
       THEN /\ pc' = "raised"
            /\ UNCHANGED image_name
       ELSE /\ image_name' = create_image_name(DEFAULT_PREFIX, 1,
                                               mermaid_blocks[i].block_text, image_format)
            /\ pc' = "dispatch"
    /\ UNCHANGED <<env, outside, image_dir_state, files, scenario, stats, content, diagram_config,
                   mermaid_blocks, image_paths_info, all_successful_flag, i, success,
                   rebuild_vars, history>>

\* create_image_name for block i; re.sub on a prefix that is no string raises.
SynthesizeName ==
    /\ pc = "name"
    /\ IF kwargs.image_prefix /= "str"
       THEN /\ pc' = "raised"
            /\ UNCHANGED image_name
       ELSE /\ image_name' = create_image_name(DEFAULT_PREFIX, i,
                                               mermaid_blocks[i].block_text, image_format)
            /\ pc' = "dispatch"
    /\ UNCHANGED <<env, outside, image_dir_state, files, scenario, stats, content, diagram_config,
                   mermaid_blocks, image_paths_info, all_successful_flag, i, success,
                   rebuild_vars, history>>

\* generate_diagram_image for block i, with output_path = abs_image_path.
DispatchRender ==
    /\ pc = "dispatch"
    /\ \E sc \in Scenarios(method) :
          LET abs_image_path == JoinPath(abs_image_dir, image_name)
              call == generate_diagram_image(method, MERMAID_AVAILABLE, image_format, sc,
                                             FileAt(files, abs_image_path))
          IN  /\ scenario' = sc
              /\ files' = SetFile(files, abs_image_path, call.file)
              /\ success' = call.success
              /\ render_results' = Append(render_results, call.success)
              /\ pc' = IF call.raised THEN "raised" ELSE "record"
    /\ dispatched' = Append(dispatched, i)
    /\ UNCHANGED <<env, outside, image_dir_state, stats, content, diagram_config,
                   mermaid_blocks, image_paths_info, all_successful_flag, i,
                   image_name, rebuild_vars>>

\* Variant: the flag follows the last outcome alone.
UpdateAllSuccessful_LastOnly(flag, ok) == ok

\* all_successful_flag after one more outcome.
UpdateAllSuccessful(flag, ok) == IF ok THEN flag ELSE FALSE

\* Variant: a failed render ends the loop.
AfterBlock_StopOnFailure(k, n, ok) == IF ok /\ k < n THEN "name" ELSE "afterloop"

\* Where the for loop goes after block k of n.
AfterBlock(k, n, ok) == IF k < n THEN "name" ELSE "afterloop"

\* The if success / else that records the outcome of block i.
RecordOutcome ==
    /\ pc = "record"
    /\ LET abs_image_path == JoinPath(abs_image_dir, image_name)
           rel_path == RelPath(abs_image_path, output_md_dir)
       IN  IF success
           THEN /\ stats' = [stats EXCEPT
                               !.successful_conversions = @ + 1,
                               !.generated_image_paths = Append(@, abs_image_path)]
                /\ image_paths_info' =
                       Append(image_paths_info,
                              [relative_image_path |-> rel_path, success_flag |-> TRUE])
           ELSE /\ stats' = [stats EXCEPT !.failed_conversions = @ + 1]
                /\ image_paths_info' =
                       Append(image_paths_info,
                              [relative_image_path |-> NoPath, success_flag |-> FALSE])
    /\ all_successful_flag' = UpdateAllSuccessful(all_successful_flag, success)
    /\ pc' = AfterBlock(i, Len(mermaid_blocks), success)
    /\ i' = i + 1
    /\ scenario' = Idle
    /\ UNCHANGED <<env, outside, image_dir_state, files, content, diagram_config, mermaid_blocks,
                   image_name, success, rebuild_vars, history>>

\* After the loop: the overall flag, the output file name, and the call of
\* replace_mermaid_with_images_enhanced up to its first iteration.
PrepareRebuild ==
    /\ pc = "afterloop"
    /\ stats' = [stats EXCEPT
                   !.all_conversions_successful = all_successful_flag,
                   !.output_file_path = JoinPath(output_md_dir, <<"doc-img.md">>)]
    /\ use_html_wrapper' \in BOOLEAN
    /\ new_content' = content
    /\ offset' = 0
    /\ successful_replacements' = 0
    /\ ri' = 1
    /\ pc' = "rebuild"
    /\ UNCHANGED <<env, outside, image_dir_state, files, scenario, content, diagram_config, mermaid_blocks,
                   loop_vars, history>>

\* One iteration of the rebuilder's loop.
ReplaceBlock ==
    /\ pc = "rebuild"
    /\ ri <= Len(mermaid_blocks)
    /\ LET block == mermaid_blocks[ri]
           info == image_paths_info[ri]
           adj_start == block.start_pos + offset
           adj_end == block.end_pos + offset
           replacement_text ==
               ReplacementText(block, info, diagram_config, use_html_wrapper)
       IN  /\ new_content' = Splice(new_content, adj_start, adj_end, replacement_text)
           /\ offset' = NextOffset(offset, replacement_text, block)
           /\ successful_replacements' =
                  IF info.success_flag /\ info.relative_image_path /= NoPath
                  THEN successful_replacements + 1
                  ELSE successful_replacements
    /\ ri' = ri + 1
    /\ UNCHANGED <<pc, env, outside, image_dir_state, files, scenario, stats, content, diagram_config,
                   mermaid_blocks, loop_vars, use_html_wrapper, history>>

\* The rebuilder returns; the result is stored and the function returns stats.
FinishRebuild ==
    /\ pc = "rebuild"
    /\ ri > Len(mermaid_blocks)
    /\ stats' = [stats EXCEPT !.new_content = new_content]
    /\ pc' = "returned"
    /\ UNCHANGED <<env, outside, image_dir_state, files, scenario, content, diagram_config, mermaid_blocks,
                   loop_vars, rebuild_vars, history>>

Next ==
    \/ CheckMethod
    \/ LoadConfig
    \/ ValidateInput
    \/ ReadFile
    \/ ExtractBlocks
    \/ PrepareImageDirectory
    \/ SynthesizeName
    \/ DispatchRender
    \/ RecordOutcome
    \/ PrepareRebuild
    \/ ReplaceBlock
    \/ FinishRebuild

Spec == Init /\ [][Next]_vars

\* ------------------------------------- generate_diagram_image, any directory

\* The image formats a call is made with.
ImageFormats == {"svg", "SVG", "PNG", "gif"}

\* One call of generate_diagram_image: the pipeline stands at the call for the
\* only block of a document, with any backend, any image format and anything
\* at the output path (a file of an earlier run, or none).
RenderInit ==
    /\ pc = "dispatch"
    /\ \E b \in Backends : method = b.method /\ MERMAID_AVAILABLE = b.available
    /\ kwargs = [config_path_input |-> "str", image_prefix |-> "str"]
    /\ input_file = [kind |-> "file", content |-> PIE_BLOCK]
    /\ image_dir_state = "present"
    /\ content = input_file.content
    /\ diagram_config = default_config
    /\ mermaid_blocks = extract_mermaid_blocks(content)
    /\ stats = [InitialStats(method) EXCEPT !.new_content = content,
                                            !.total_diagrams = Len(mermaid_blocks),
                                            !.image_directory = abs_image_dir]
    /\ image_paths_info = <<>>
    /\ all_successful_flag = TRUE
    /\ i = 1
    /\ image_format \in ImageFormats
    /\ image_name = create_image_name(DEFAULT_PREFIX, i, mermaid_blocks[i].block_text,
                                      image_format)
    /\ \E st \in FileStates :
          files = SetFile(<<>>, JoinPath(abs_image_dir, image_name), st)
    /\ success = FALSE
    /\ use_html_wrapper = TRUE
    /\ new_content = <<>>
    /\ offset = 0
    /\ successful_replacements = 0
    /\ ri = 1
    /\ dispatched = <<>>
    /\ render_results = <<>>
    /\ scenario = Idle
    /\ name_calls = <<>>
    /\ BeyondIdle

RenderNext == DispatchRender

RenderSpec == RenderInit /\ [][RenderNext]_vars

\* ------------------------------------------- create_image_name, call by call

\* Largest number of calls of create_image_name in a row.
MaxCalls == 2

\* The arguments a call is made with: a plain prefix, one with characters that
\* are removed, one of which nothing is left; two indices; three diagram texts.
NamePrefixes == {DEFAULT_PREFIX, <<"a", " ", "/", "b">>, <<"/">>}
NameIndexes == {1, 2}
NameTexts == {<<>>, <<"p", "i", "e">>, <<"A">>}

\* No run of process_markdown_file has begun.
PipelineIdle ==
    /\ pc = "start"
    /\ method = "kroki"
    /\ MERMAID_AVAILABLE = FALSE
    /\ kwargs = [config_path_input |-> "str", image_prefix |-> "str"]
    /\ input_file = [kind |-> "missing", content |-> <<>>]
    /\ image_dir_state = "absent"
    /\ stats = InitialStats(method)
    /\ content = <<>>
    /\ diagram_config = <<>>
    /\ mermaid_blocks = <<>>
    /\ image_paths_info = <<>>
    /\ all_successful_flag = TRUE
    /\ i = 1
    /\ image_name = <<>>
    /\ success = FALSE
    /\ use_html_wrapper = TRUE
    /\ new_content = <<>>
    /\ offset = 0
    /\ successful_replacements = 0
    /\ ri = 1
    /\ dispatched = <<>>
    /\ render_results = <<>>
    /\ image_format = "svg"
    /\ files = <<>>
    /\ scenario = Idle

\* Calls of create_image_name alone, outside any run of the pipeline.
NameInit ==
    /\ PipelineIdle
    /\ name_calls = <<>>
    /\ BeyondIdle

\* Variant: the number of earlier calls goes into the name.
CallCreateImageName_Counted ==
    /\ Len(name_calls) < MaxCalls
    /\ \E prefix \in NamePrefixes, index \in NameIndexes,
          mermaid_code \in NameTexts, fmt \in ImageFormats :
          name_calls' =
              Append(name_calls,
                     [prefix |-> prefix, index |-> index, mermaid_code |-> mermaid_code,
                      image_format |-> fmt,
                      filename |-> create_image_name(prefix, index + Len(name_calls),
                                                     mermaid_code, fmt)])
    /\ UNCHANGED <<pipeline, beyond>>

\* One call of create_image_name, recorded with the filename it returns.
CallCreateImageName ==
    /\ Len(name_calls) < MaxCalls
    /\ \E prefix \in NamePrefixes, index \in NameIndexes,
          mermaid_code \in NameTexts, fmt \in ImageFormats :
          name_calls' =
              Append(name_calls,
                     [prefix |-> prefix, index |-> index, mermaid_code |-> mermaid_code,
                      image_format |-> fmt,
                      filename |-> create_image_name(prefix, index, mermaid_code, fmt)])
    /\ UNCHANGED <<pipeline, beyond>>

NameNext == CallCreateImageName

NameSpec == NameInit /\ [][NameNext]_vars

\* -------------------------------------- _determine_diagram_type, call by call

\* Largest number of lines of a text handed to _determine_diagram_type.
MaxLines == 2

\* The lines a text is made of: blank ones, comments (one of them with a
\* keyword behind the mark), every keyword of the table, keywords with text
\* behind them or indented, a keyword in the wrong case and an unknown word.
ClassifyLines ==
    {<<>>, <<" ">>, <<"\t", " ">>, COMMENT_MARK \o <<"x">>, COMMENT_MARK \o <<"p", "i", "e">>,
     <<"z">>, <<"P", "i", "e">>, <<" ", "p", "i", "e", " ">>,
     <<"g", "r", "a", "p", "h", "X">>, <<"x", "p", "i", "e">>}
        \cup {type_map[k].keyword : k \in 1..Len(type_map)}
        \cup {type_map[k].keyword \o <<" ", "T", "D">> : k \in {3, 4, 10, 12}}

RECURSIVE JoinLines(_)
JoinLines(lines) ==
    IF Len(lines) = 0 THEN <<>>
    ELSE IF Len(lines) = 1 THEN lines[1]
    ELSE lines[1] \o <<"\n">> \o JoinLines(Tail(lines))

\* The texts of at most MaxLines lines, the empty text among them.
ClassifyTexts ==
    UNION {{JoinLines(lines) : lines \in [1..n -> ClassifyLines]} : n \in 0..MaxLines}

ClassifyInit ==
    /\ PipelineIdle
    /\ name_calls = <<>>
    /\ \E text \in ClassifyTexts : type_call = [NoTypeCall EXCEPT !.mermaid_code = text]
    /\ earlier_runs = <<>>
    /\ cli = NoCli
    /\ gui = NoGui

\* One call of _determine_diagram_type, recorded with the tag it returns.
CallDetermineDiagramType ==
    /\ ~type_call.returned
    /\ type_call' = [type_call EXCEPT !.returned = TRUE,
                                      !.type = determine_diagram_type(type_call.mermaid_code)]
    /\ UNCHANGED <<pipeline, name_calls, earlier_runs, cli, gui>>

ClassifyNext == CallDetermineDiagramType

ClassifySpec == ClassifyInit /\ [][ClassifyNext]_vars

\* ------------------------------------ process_markdown_file, run after run

\* Largest number of runs in a row.
MaxRuns == 2

\* The input of the runs: no file, a text without a block, one block, the
\* same block twice.
RerunFiles ==
    {[kind |-> "missing", content |-> <<>>],
     [kind |-> "file", content |-> <<"A">>],
     [kind |-> "file", content |-> PIE_BLOCK],
     [kind |-> "file", content |-> PIE_BLOCK \o <<"\n">> \o PIE_BLOCK]}

\* The first of several runs on one document with one set of options; the
\* disk is as the earlier runs leave it.
RerunInit ==
    /\ Init
    /\ input_file \in RerunFiles

\* Variant: the result dictionary of the earlier run is used again.
FreshStats_Kept(m, st) == st

\* stats = {...} at the start of the function.
FreshStats(m, st) == InitialStats(m)

\* The function is called again with the same arguments: its result
\* dictionary and its locals are made anew, the directory and the files are
\* what the earlier runs left.
InvokeAgain ==
    /\ pc \in {"returned", "raised"}
    /\ Len(earlier_runs) < MaxRuns - 1
    /\ earlier_runs' =
           Append(earlier_runs,
                  [raised |-> pc = "raised", outcomes |-> render_results,
                   use_html_wrapper |-> use_html_wrapper, stats |-> stats])
    /\ pc' = "start"
    /\ stats' = FreshStats(method, stats)
    /\ content' = <<>>
    /\ diagram_config' = <<>>
    /\ mermaid_blocks' = <<>>
    /\ image_paths_info' = <<>>
    /\ all_successful_flag' = TRUE
    /\ i' = 1
    /\ image_name' = <<>>
    /\ success' = FALSE
    /\ use_html_wrapper' = TRUE
    /\ new_content' = <<>>
    /\ offset' = 0
    /\ successful_replacements' = 0
    /\ ri' = 1
    /\ dispatched' = <<>>
    /\ render_results' = <<>>
    /\ scenario' = Idle
    /\ UNCHANGED <<env, image_dir_state, files, name_calls, type_call, cli, gui>>

RerunNext == Next \/ InvokeAgain

RerunSpec == RerunInit /\ [][RerunNext]_vars

\* --------------------------------------------------------- main.py: main()

\* The input of the command line program: no file, a file that cannot be
\* read, a text without a block, one block, the same block twice.
CliFiles ==
    {[kind |-> "missing", content |-> <<>>],
     [kind |-> "unreadable", content |-> <<>>],
     [kind |-> "file", content |-> <<"A">>],
     [kind |-> "file", content |-> PIE_BLOCK],
     [kind |-> "file", content |-> PIE_BLOCK \o <<"\n">> \o PIE_BLOCK]}

\* What a run of process_markdown_file reads or writes, the files apart.
pipeline_but_files ==
    <<pc, env, image_dir_state, scenario, stats, content, diagram_config,
      mermaid_blocks, loop_vars, rebuild_vars, history>>

\* main() after argument parsing: --converter is library or kroki, the
\* prefix and the config path are strings, --move-original is a flag.
CliInit ==
    /\ PipelineInit
    /\ method \in {"library", "kroki"}
    /\ kwargs = [config_path_input |-> "str", image_prefix |-> "str"]
    /\ input_file \in CliFiles
    /\ name_calls = <<>>
    /\ type_call = NoTypeCall
    /\ earlier_runs = <<>>
    /\ gui = NoGui
    /\ \E flag \in BOOLEAN : cli = [NoCli EXCEPT !.step = "precheck", !.move_original = flag]

\* sys.exit(code)
Exit(c, code) == [c EXCEPT !.step = "exited", !.exit_code = code]

\* The checks before the call: the input file exists, the library is there
\* when it is asked for.
CliPrecheck ==
    /\ cli.step = "precheck"
    /\ cli' = IF input_file.kind = "missing" \/ (method = "library" /\ ~MERMAID_AVAILABLE)
              THEN Exit(cli, 1)
              ELSE [cli EXCEPT !.step = "processing"]
    /\ UNCHANGED <<pipeline, name_calls, type_call, earlier_runs, gui>>

\* process_markdown_file runs inside main().
CliProcess == cli.step = "processing" /\ Next

\* The branches on the returned stats: an early error, all blocks converted
\* (the output file is written, which may fail and fails for an empty path;
\* the original is moved when asked for, which may fail), or the rollback.
CliHandleResult ==
    /\ cli.step = "processing"
    /\ pc = "returned"
    /\ IF stats.error /= NONE
       THEN cli' = Exit(cli, 1)
       ELSE IF stats.all_conversions_successful
       THEN \E write_ok \in BOOLEAN, move_ok \in BOOLEAN :
               LET output_written == write_ok /\ stats.output_file_path /= <<>>
                   original_moved == output_written /\ cli.move_original /\ move_ok
               IN  cli' = Exit([cli EXCEPT
                                  !.output_document =
                                      IF output_written THEN "written" ELSE "absent",
                                  !.original =
                                      IF original_moved THEN "moved" ELSE "in place"], 0)
       ELSE cli' = [cli EXCEPT !.step = "rollback", !.rk = 1]
    /\ UNCHANGED <<pipeline, name_calls, type_call, earlier_runs, gui>>

\* Variant: the rollback passes over the image.
CliRollbackImage_Skipped ==
    /\ cli.step = "rollback"
    /\ cli.rk <= Len(stats.generated_image_paths)
    /\ cli' = [cli EXCEPT !.rk = @ + 1]
    /\ UNCHANGED <<pipeline, name_calls, type_call, earlier_runs, gui>>

\* One iteration of _cli_rollback_images: os.remove of a listed file that
\* exists; an OSError is reported and the loop goes on.
CliRollbackImage ==
    /\ cli.step = "rollback"
    /\ cli.rk <= Len(stats.generated_image_paths)
    /\ LET img_path == stats.generated_image_paths[cli.rk]
       IN  IF FileAt(files, img_path) /= "absent"
           THEN \E remove_fails \in BOOLEAN :
                   IF remove_fails
                   THEN /\ cli' = [cli EXCEPT !.rk = @ + 1,
                                              !.undeleted = @ \cup {img_path}]
                        /\ UNCHANGED files
                   ELSE /\ cli' = [cli EXCEPT !.rk = @ + 1]
                        /\ files' = SetFile(files, img_path, "absent")
           ELSE /\ cli' = [cli EXCEPT !.rk = @ + 1]
                /\ UNCHANGED files
    /\ UNCHANGED <<pipeline_but_files, name_calls, type_call, earlier_runs, gui>>

\* After the rollback: no output file, no move, exit code 1.
CliRollbackDone ==
    /\ cli.step = "rollback"
    /\ cli.rk > Len(stats.generated_image_paths)
    /\ cli' = Exit([cli EXCEPT !.rolled_back = TRUE], 1)
    /\ UNCHANGED <<pipeline, name_calls, type_call, earlier_runs, gui>>

CliNext ==
    \/ CliPrecheck
    \/ CliProcess
    \/ CliHandleResult
    \/ CliRollbackImage
    \/ CliRollbackDone

CliSpec == CliInit /\ [][CliNext]_vars

\* ------------------------------------------------ gui.py: MermaidConverterGUI

\* Largest number of clicks on the convert button.
MaxClicks == 3

\* What run_conversion_thread hands to handle_conversion_result: the stats of
\* a call that raised (an error text and nothing else), of an early error, of
\* the directory error (which keeps total_diagrams), of a run with all blocks
\* converted, of a document without blocks, and of a partial failure.
WorkerResults ==
    {[kind |-> "exception", error |-> TRUE, total_diagrams |-> 0,
      all_conversions_successful |-> FALSE],
     [kind |-> "early error", error |-> TRUE, total_diagrams |-> 0,
      all_conversions_successful |-> FALSE],
     [kind |-> "directory error", error |-> TRUE, total_diagrams |-> 1,
      all_conversions_successful |-> FALSE],
     [kind |-> "all converted", error |-> FALSE, total_diagrams |-> 1,
      all_conversions_successful |-> TRUE],
     [kind |-> "no blocks", error |-> FALSE, total_diagrams |-> 0,
      all_conversions_successful |-> TRUE],
     [kind |-> "partial failure", error |-> FALSE, total_diagrams |-> 2,
      all_conversions_successful |-> FALSE]}

GuiInit ==
    /\ PipelineIdle
    /\ name_calls = <<>>
    /\ type_call = NoTypeCall
    /\ earlier_runs = <<>>
    /\ cli = NoCli
    /\ gui = NewWindow

\* Variant: the flag and the button are left as they are.
reset_ui_state_Forgotten(g) == g

\* _reset_ui_state: the button is enabled again and the flag is cleared.
reset_ui_state(g) ==
    [g EXCEPT !.convert_button = "normal", !.is_processing = FALSE, !.resets = @ + 1]

\* Variant: a conversion under way does not stop the handler.
Busy_Ignored(g) == FALSE

\* The first check of start_conversion.
Busy(g) == g.is_processing

\* start_conversion up to the start of the thread: refused while a conversion
\* is under way or when an input is not valid; otherwise the button is
\* disabled and is_processing is set.
start_conversion ==
    /\ gui.window = "open"
    /\ gui.ui = "idle"
    /\ gui.clicks < MaxClicks
    /\ \E inputs_valid \in BOOLEAN :
          gui' = IF Busy(gui)
                 THEN [gui EXCEPT !.clicks = @ + 1, !.last = "busy"]
                 ELSE IF ~inputs_valid
                 THEN [gui EXCEPT !.clicks = @ + 1, !.last = "input error"]
                 ELSE [gui EXCEPT !.clicks = @ + 1, !.convert_button = "disabled",
                                  !.is_processing = TRUE, !.ui = "starting",
                                  !.last = "started"]
    /\ UNCHANGED <<pipeline, name_calls, type_call, earlier_runs, cli>>

\* conversion_thread.start(), the last statement of start_conversion.
conversion_thread_start ==
    /\ gui.ui = "starting"
    /\ gui' = [gui EXCEPT !.running = @ + 1, !.started = @ + 1, !.ui = "idle"]
    /\ UNCHANGED <<pipeline, name_calls, type_call, earlier_runs, cli>>

\* run_conversion_thread, on the worker: process_markdown_file returns or
\* raises, and the finally clause schedules handle_conversion_result on the
\* UI thread if the window is still there.
run_conversion_thread ==
    /\ gui.running > 0
    /\ \E stats_out \in WorkerResults :
          gui' = IF gui.window = "open"
                 THEN [gui EXCEPT !.running = @ - 1, !.handed = @ + 1,
                                  !.after_queue = Append(@, stats_out)]
                 ELSE [gui EXCEPT !.running = @ - 1]
    /\ UNCHANGED <<pipeline, name_calls, type_call, earlier_runs, cli>>

\* handle_conversion_result, on the UI thread: an early error resets the UI;
\* a run with all blocks converted goes on to the file operations and
\* conversion_completed; anything else asks the user.
handle_conversion_result ==
    /\ gui.window = "open"
    /\ gui.ui = "idle"
    /\ gui.after_queue /= <<>>
    /\ LET stats_in == Head(gui.after_queue)
           taken == [gui EXCEPT !.after_queue = Tail(@)]
       IN  gui' = IF stats_in.error /\ ~(stats_in.total_diagrams > 0)
                  THEN [reset_ui_state(taken) EXCEPT !.last = stats_in.kind]
                  ELSE IF stats_in.all_conversions_successful
                  THEN [reset_ui_state(taken) EXCEPT !.last = stats_in.kind]
                  ELSE [taken EXCEPT !.ui = "dialog", !.pending = stats_in]
    /\ UNCHANGED <<pipeline, name_calls, type_call, earlier_runs, cli>>

\* messagebox.askyesno returns: yes writes the partial output, no rolls the
\* images back; both end in conversion_completed.
answer_dialog ==
    /\ gui.window = "open"
    /\ gui.ui = "dialog"
    /\ \E user_choice \in BOOLEAN :
          gui' = [reset_ui_state([gui EXCEPT !.ui = "idle", !.pending = NoResult])
                      EXCEPT !.last = IF user_choice THEN "proceeded" ELSE "rolled back"]
    /\ UNCHANGED <<pipeline, name_calls, type_call, earlier_runs, cli>>

\* _quit_application: the window is destroyed, whatever is under way.
quit_application ==
    /\ gui.window = "open"
    /\ gui.ui = "idle"
    /\ gui' = [gui EXCEPT !.window = "closed"]
    /\ UNCHANGED <<pipeline, name_calls, type_call, earlier_runs, cli>>

GuiNext ==
    \/ start_conversion
    \/ conversion_thread_start
    \/ run_conversion_thread
    \/ handle_conversion_result
    \/ answer_dialog
    \/ quit_application

GuiSpec == GuiInit /\ [][GuiNext]_vars

\* The worker thread runs on, the event loop runs the callbacks it was given,
\* start_conversion runs to its end, and the user answers the dialog.
GuiFairness ==
    /\ WF_vars(conversion_thread_start)
    /\ WF_vars(run_conversion_thread)
    /\ WF_vars(handle_conversion_result)
    /\ WF_vars(answer_dialog)

FairGuiSpec == GuiInit /\ [][GuiNext]_vars /\ GuiFairness

\* ============================================================ properties

N == Len(mermaid_blocks)

Returned == pc = "returned"

\* The function returned after its loop and the rebuild.
Completed == Returned /\ stats.error = NONE /\ N >= 1

\* The replacement of block k, from the block and its recorded outcome.
Replacement(k) ==
    ReplacementText(mermaid_blocks[k], image_paths_info[k], diagram_config,
                    use_html_wrapper)

\* content[lo:hi] by positions of the original text alone.
Original(lo, hi) == SubSeq(content, lo + 1, hi)

\* doc[prev_end:s_k] + r_k + ... with the blocks up to `upto` replaced and the
\* later ones left as they are in the original.
RECURSIVE ExpectedFrom(_, _, _)
ExpectedFrom(k, prev_end, upto) ==
    IF k > upto THEN Original(prev_end, Len(content))
    ELSE Original(prev_end, mermaid_blocks[k].start_pos) \o Replacement(k)
         \o ExpectedFrom(k + 1, mermaid_blocks[k].end_pos, upto)

\* The sum over blocks 1..k of len(replacement) - (end_offset - start_offset).
RECURSIVE SumDelta(_)
SumDelta(k) ==
    IF k = 0 THEN 0
    ELSE SumDelta(k - 1) + Len(Replacement(k))
         - (mermaid_blocks[k].end_pos - mermaid_blocks[k].start_pos)

\* C1: the rebuilt text is doc[0:s1] + r1 + doc[e1:s2] + r2 + ... + rN + doc[eN:]:
\* the characters outside the matched spans are kept, unchanged and in order, and
\* the replacements stand in the order of their blocks; after each iteration
\* the same holds with the later blocks still in place.
C1_OrderedSplice ==
    /\ pc = "rebuild" => new_content = ExpectedFrom(1, 0, ri - 1)
    /\ Completed => stats.new_content = ExpectedFrom(1, 0, N)

C1_Witness ==
    /\ Completed
    /\ N >= 2
    /\ mermaid_blocks[1].start_pos > 0
    /\ mermaid_blocks[2].start_pos > mermaid_blocks[1].end_pos
    /\ image_paths_info[1].success_flag
    /\ ~image_paths_info[2].success_flag
    /\ stats.new_content = ExpectedFrom(1, 0, N)

\* C2: the length of the returned text is the input length plus the sum over all
\* blocks of (replacement length - span length), and after block k the running
\* offset is that sum over blocks 1..k.
C2_LengthDelta ==
    /\ pc = "rebuild" =>
          /\ offset = SumDelta(ri - 1)
          /\ Len(new_content) = Len(content) + SumDelta(ri - 1)
    /\ Completed =>
          /\ offset = SumDelta(N)
          /\ Len(stats.new_content) = Len(content) + SumDelta(N)

C2_Witness ==
    /\ Completed
    /\ N >= 2
    /\ \E j, k \in 1..N : image_paths_info[j].success_flag /\ ~image_paths_info[k].success_flag
    /\ offset = SumDelta(N)
    /\ offset /= 0
    /\ Len(stats.new_content) = Len(content) + offset

\* The input is a readable file whose text holds no fenced mermaid block.
NoBlockDocument ==
    input_file.kind = "file" /\ extract_mermaid_blocks(input_file.content) = <<>>

NoOpResult ==
    /\ stats.new_content = input_file.content
    /\ stats.all_conversions_successful
    /\ stats.total_diagrams = 0

\* C3 as stated: for a readable document without a fenced mermaid block and for
\* every backend selection, the result is the no-op result.
C3_NoOpForEveryBackend == (Returned /\ NoBlockDocument) => NoOpResult

\* C3 as amended: the same for every backend selection but method "library"
\* with the library unavailable.
C3_NoOpUnlessLibraryMissing ==
    (Returned /\ NoBlockDocument /\ ~(method = "library" /\ ~MERMAID_AVAILABLE))
        => NoOpResult

C3_Witness ==
    /\ Returned
    /\ NoBlockDocument
    /\ method = "library"
    /\ MERMAID_AVAILABLE
    /\ Len(input_file.content) >= 2
    /\ NoOpResult

\* C4 as stated: in every returned result, early error returns included,
\* all_conversions_successful is true iff failed_conversions is zero.
C4_FlagIffNoFailureAnywhere ==
    Returned => (stats.all_conversions_successful <=> stats.failed_conversions = 0)

\* C4 as amended: the equivalence holds in every result whose error is null; an
\* error result has the flag false and failed_conversions zero.
C4_FlagIffNoFailureWithoutError ==
    /\ (Returned /\ stats.error = NONE) =>
          (stats.all_conversions_successful <=> stats.failed_conversions = 0)
    /\ (Returned /\ stats.error /= NONE) =>
          (~stats.all_conversions_successful /\ stats.failed_conversions = 0)

C4_Witness ==
    /\ Completed
    /\ N >= 2
    /\ ~image_paths_info[1].success_flag
    /\ image_paths_info[N].success_flag
    /\ ~stats.all_conversions_successful
    /\ stats.failed_conversions = 1

\* The step at hand meets one of the expected failures.
ExpectedFailure ==
    \/ pc = "start" /\ method = "library" /\ ~MERMAID_AVAILABLE
    \/ pc = "validate" /\ input_file.kind = "missing"
    \/ pc = "read" /\ input_file.kind = "unreadable"
    \/ pc = "mkdir" /\ image_dir_state = "blocked"

ResultKeys == DOMAIN InitialStats("library")

\* C5: on each expected failure (library backend unavailable, input path
\* missing, read error, image directory not creatable) the function does not
\* raise: its next step returns the full result with a non-null error.
C5_ExpectedFailuresReturn ==
    [][ExpectedFailure =>
          /\ pc' = "returned"
          /\ stats'.error /= NONE
          /\ DOMAIN stats' = ResultKeys]_vars

C5_Witness ==
    /\ Returned
    /\ image_dir_state = "blocked"
    /\ N >= 1
    /\ stats.error = "failed to create image directory"

\* C6: every error result has default values in all its other fields.
C6_ErrorResultIsDefault ==
    (Returned /\ stats.error /= NONE) =>
        /\ stats.total_diagrams = 0
        /\ stats.successful_conversions = 0
        /\ stats.failed_conversions = 0
        /\ stats.new_content = <<>>
        /\ stats.generated_image_paths = <<>>
        /\ stats.output_file_path = <<>>

\* C7: no exception leaves process_markdown_file.
C7_NoExceptionEscapes == pc /= "raised"

\* The number of successful renders among the first k.
RECURSIVE Succeeded(_)
Succeeded(k) ==
    IF k = 0 THEN 0 ELSE Succeeded(k - 1) + (IF render_results[k] THEN 1 ELSE 0)

\* C8: once the image directory is ensured, every block is handed to the
\* backend exactly once and in document order whatever the earlier outcomes,
\* one outcome is recorded per block in block order, and on return
\* total_diagrams = N = successful_conversions + failed_conversions with
\* successful_conversions the number of renders that succeeded.
C8_OneRenderPerBlock ==
    /\ \A j \in 1..Len(dispatched) : dispatched[j] = j
    /\ Len(dispatched) <= N
    /\ Len(render_results) = Len(dispatched)
    /\ Len(image_paths_info) = IF pc = "record" THEN Len(dispatched) - 1 ELSE Len(dispatched)
    /\ \A j \in 1..Len(image_paths_info) :
          image_paths_info[j].success_flag = render_results[j]
    /\ (pc \in {"afterloop", "rebuild", "returned"} /\ stats.image_directory /= <<>>) =>
          /\ N >= 1
          /\ Len(dispatched) = N
          /\ Len(image_paths_info) = N
          /\ stats.total_diagrams = N
          /\ stats.successful_conversions + stats.failed_conversions = N
          /\ stats.successful_conversions = Succeeded(N)

C8_Witness ==
    /\ Returned
    /\ stats.image_directory /= <<>>
    /\ N = 3
    /\ dispatched = <<1, 2, 3>>
    /\ render_results = <<FALSE, TRUE, FALSE>>
    /\ stats.successful_conversions = 1
    /\ stats.failed_conversions = 2

\* The symbols that open an image reference and those that close its path.
RefOpeners == {"<img src=\"", "]("}
RefClosers == {"\" alt=\"Mermaid Diagram:", ")"}

RECURSIVE PathFrom(_, _)
PathFrom(text, p) ==
    IF p > Len(text) \/ text[p] \in RefClosers THEN <<>>
    ELSE <<text[p]>> \o PathFrom(text, p + 1)

\* The paths of the image references of a text, in order.
RECURSIVE ImageRefs(_, _)
ImageRefs(text, p) ==
    IF p > Len(text) THEN <<>>
    ELSE IF text[p] \in RefOpeners
         THEN <<PathFrom(text, p + 1)>> \o ImageRefs(text, p + 1)
         ELSE ImageRefs(text, p + 1)

RecordedPaths == [k \in 1..N |-> image_paths_info[k].relative_image_path]

AllRendered == Completed /\ stats.failed_conversions = 0

\* Block k follows an opening fence directly: the unmatched text before it
\* ends with ```mermaid.
AfterOpenFence(k) ==
    LET prev_end == IF k = 1 THEN 0 ELSE mermaid_blocks[k - 1].end_pos
        gap == Original(prev_end, mermaid_blocks[k].start_pos)
    IN  /\ Len(gap) >= Len(OPEN_FENCE)
        /\ SubSeq(gap, Len(gap) - Len(OPEN_FENCE) + 1, Len(gap)) = OPEN_FENCE

NoBlockAfterOpenFence == \A k \in 1..N : ~AfterOpenFence(k)

\* C9 as stated: when every block rendered, the rebuilt text holds no fenced
\* mermaid block and one image reference per block, in block order.
C9_NoFenceLeftAnywhere ==
    AllRendered =>
        /\ extract_mermaid_blocks(stats.new_content) = <<>>
        /\ ImageRefs(stats.new_content, 1) = RecordedPaths

\* C9 as amended: one image reference per block in block order; and no fenced
\* mermaid block is left provided no block directly follows an opening fence.
C9_NoFenceLeftUnlessOpenFenceBefore ==
    AllRendered =>
        /\ ImageRefs(stats.new_content, 1) = RecordedPaths
        /\ NoBlockAfterOpenFence => extract_mermaid_blocks(stats.new_content) = <<>>

C9_Witness ==
    /\ AllRendered
    /\ N >= 2
    /\ NoBlockAfterOpenFence
    /\ Len(ImageRefs(stats.new_content, 1)) = N
    /\ extract_mermaid_blocks(stats.new_content) = <<>>

\* The texts of the failed blocks, in block order.
RECURSIVE FailedTexts(_)
FailedTexts(k) ==
    IF k > N THEN <<>>
    ELSE (IF image_paths_info[k].success_flag THEN <<>>
          ELSE <<mermaid_blocks[k].block_text>>) \o FailedTexts(k + 1)

TextsOf(blocks) == [k \in 1..Len(blocks) |-> blocks[k].block_text]

\* a is b with some of its entries left out.
RECURSIVE IsSubsequence(_, _)
IsSubsequence(a, b) ==
    IF a = <<>> THEN TRUE
    ELSE IF b = <<>> THEN FALSE
    ELSE IF Head(a) = Head(b) THEN IsSubsequence(Tail(a), Tail(b))
    ELSE IsSubsequence(a, Tail(b))

\* C10 as stated: the blocks found in the rebuilt text include, for each failed
\* block, a block with the identical text, in the order of the original.
C10_FailedBlocksKeptAnywhere ==
    Completed =>
        IsSubsequence(FailedTexts(1), TextsOf(extract_mermaid_blocks(stats.new_content)))

\* C10 as amended: the same provided no block directly follows an opening fence.
C10_FailedBlocksKeptUnlessOpenFenceBefore ==
    (Completed /\ NoBlockAfterOpenFence) =>
        IsSubsequence(FailedTexts(1), TextsOf(extract_mermaid_blocks(stats.new_content)))

C10_Witness ==
    /\ Completed
    /\ NoBlockAfterOpenFence
    /\ N >= 2
    /\ stats.failed_conversions >= 1
    /\ stats.successful_conversions >= 1
    /\ TextsOf(extract_mermaid_blocks(stats.new_content)) = FailedTexts(1)
    /\ FailedTexts(1)[1] /= <<>>

\* A failed block as the rebuilder fences it again, without the surrounding
\* line breaks.
Rewrapped(block_text) ==
    OPEN_FENCE \o <<"\n">> \o Strip(block_text) \o <<"\n">> \o FENCE

\* Text r is a marker with a visible (non-whitespace) symbol, then the
\* re-wrapped block and whitespace.
MarkerThenBlock(r, block_text) ==
    \E p \in 1..Len(r) :
        /\ \E q \in 1..(p - 1) : ~IsSpace(r[q])
        /\ Strip(SubSeq(r, p, Len(r))) = Rewrapped(block_text)

FailedBlocks == {k \in 1..N : ~image_paths_info[k].success_flag}

\* C11: the replacement of every failed block is a visible failure marker (a
\* comment with a non-whitespace symbol) followed by the original block text in
\* its fence markers.
C11_FailureMarkerVisible ==
    Completed =>
        \A k \in FailedBlocks : MarkerThenBlock(Replacement(k), mermaid_blocks[k].block_text)

InputError == input_file.kind \in {"missing", "unreadable"}

\* C12: a run that returns a non-null error dispatched no render and wrote no
\* image file (successful_conversions = failed_conversions = 0, no generated
\* image path); after an input error the image directory was not created.
C12_ErrorMeansNoSideEffect ==
    (Returned /\ stats.error /= NONE) =>
        /\ dispatched = <<>>
        /\ render_results = <<>>
        /\ DOMAIN files = {}
        /\ stats.successful_conversions = 0
        /\ stats.failed_conversions = 0
        /\ stats.generated_image_paths = <<>>
        /\ InputError => image_dir_state /= "present"

C12_Witness ==
    /\ Returned
    /\ stats.error = "failed to read"
    /\ method = "kroki"
    /\ image_dir_state = "absent"
    /\ dispatched = <<>>

\* The output path of the call at hand.
OutputPath == JoinPath(abs_image_dir, image_name)

\* generate_diagram_image has just returned.
CallReturned == pc = "record"

RemovalFailed == scenario.backend \in {"library", "kroki"} /\ scenario.remove_fails

\* C13: after a call of generate_diagram_image that returns failure, for either
\* backend and on every failure path, no file is at the output path unless the
\* removal of the file failed.
C13_NoFileAfterFailure ==
    (CallReturned /\ ~success /\ method \in {"library", "kroki"} /\ ~RemovalFailed) =>
        FileAt(files, OutputPath) = "absent"

\* C14: when generate_diagram_image returns success, for either backend, a
\* non-empty file is at the output path; every path in generated_image_paths
\* names a non-empty file.
C14_SuccessMeansNonEmptyFile ==
    /\ (CallReturned /\ success) => FileAt(files, OutputPath) = "nonempty"
    /\ \A j \in 1..Len(stats.generated_image_paths) :
          FileAt(files, stats.generated_image_paths[j]) = "nonempty"

C14_Witness ==
    /\ Returned
    /\ method = "kroki"
    /\ N >= 2
    /\ Len(stats.generated_image_paths) = 1
    /\ FileAt(files, stats.generated_image_paths[1]) = "nonempty"
    /\ stats.generated_image_paths[1] = JoinPath(abs_image_dir, image_name)

\* The failures of the HTTP service the claim lists.
ListedKrokiFailure ==
    /\ scenario.backend = "kroki"
    /\ scenario.url_ok
    /\ \/ scenario.request \in {"ConnectionError", "Timeout"}
       \/ scenario.request = "response" /\ (scenario.status < 200 \/ scenario.status >= 300)
       \/ scenario.request = "response" /\ scenario.status = 200 /\ scenario.body = "empty"

\* C15: a response whose status is not 2xx, a connection failure, a timeout and
\* a 200 response with an empty body each make generate_image_with_kroki return
\* failure without raising.
C15_KrokiFailuresReturnFalse ==
    (method = "kroki" /\ pc \in {"record", "raised"} /\ ListedKrokiFailure) =>
        (pc = "record" /\ ~success)

UnknownMethod_Selected == method \notin {"library", "kroki"}

\* C16: for a method other than library and kroki, generate_diagram_image
\* returns failure, raises nothing and leaves the files as they are; a run that
\* reaches the loop completes with every block recorded as failed and no error.
C16_UnknownMethodFails ==
    /\ [][(pc = "dispatch" /\ UnknownMethod_Selected) =>
             (pc' = "record" /\ ~success' /\ files' = files)]_vars
    /\ [](UnknownMethod_Selected =>
             /\ (pc \in {"afterloop", "rebuild", "returned"} /\ dispatched /= <<>>) =>
                   /\ stats.error = NONE
                   /\ stats.failed_conversions = N
                   /\ stats.successful_conversions = 0
                   /\ FailedBlocks = 1..N
             /\ (Returned /\ stats.image_directory /= <<>>) =>
                   (stats.error = NONE /\ ~stats.all_conversions_successful))

C16_Witness ==
    /\ Returned
    /\ UnknownMethod_Selected
    /\ N >= 2
    /\ stats.error = NONE
    /\ stats.failed_conversions = N
    /\ FailedBlocks = 1..N

\* C17: every recorded outcome has a relative image path (not None, not empty)
\* exactly when its success flag is true, and the rebuilder converts exactly
\* the blocks whose render succeeded.
C17_PathIffSuccess ==
    /\ \A k \in 1..Len(image_paths_info) :
          /\ (image_paths_info[k].relative_image_path /= NoPath)
                <=> image_paths_info[k].success_flag
          /\ image_paths_info[k].success_flag = render_results[k]
    /\ Completed => successful_replacements = stats.successful_conversions

C17_Witness ==
    /\ pc = "afterloop"
    /\ N >= 2
    /\ image_paths_info[1].relative_image_path = NoPath
    /\ image_paths_info[2].relative_image_path /= NoPath
    /\ render_results[2]

\* Some fence (lit) starts in text at one of the 1-based positions lo..hi.
OccursIn(text, lit, lo, hi) == \E q \in lo..hi : StartsWithAt(text, q, lit)

\* The text holds an opening fence with the mermaid tag, whitespace after it,
\* and a fence somewhere behind that.
HasFencedBlock(text) ==
    \E p \in 1..Len(text) :
        /\ StartsWithAt(text, p, OPEN_FENCE)
        /\ p + Len(OPEN_FENCE) <= Len(text)
        /\ IsSpace(text[p + Len(OPEN_FENCE)])
        /\ OccursIn(text, FENCE, p + Len(OPEN_FENCE) + 1, Len(text))

\* extract_mermaid_blocks(content) has just returned: the run goes on to the
\* image directory, or returns at once for want of blocks.  Neither content
\* nor mermaid_blocks changes afterwards.
Extracted ==
    \/ pc = "mkdir"
    \/ pc = "returned" /\ stats.error = NONE /\ mermaid_blocks = <<>>

\* C18: the blocks come in strictly increasing start order with disjoint spans
\* inside the document: 0 <= start_k < end_k <= len(document) and
\* end_k <= start_(k+1); a document that is empty or holds no fenced mermaid
\* block gives the empty sequence.
C18_OrderedDisjointSpans ==
    Extracted =>
        /\ \A k \in 1..N :
              /\ 0 <= mermaid_blocks[k].start_pos
              /\ mermaid_blocks[k].start_pos < mermaid_blocks[k].end_pos
              /\ mermaid_blocks[k].end_pos <= Len(content)
        /\ \A k \in 1..(N - 1) :
              /\ mermaid_blocks[k].end_pos <= mermaid_blocks[k + 1].start_pos
              /\ mermaid_blocks[k].start_pos < mermaid_blocks[k + 1].start_pos
        /\ mermaid_blocks = <<>> <=> ~HasFencedBlock(content)

C18_Witness ==
    /\ pc = "mkdir"
    /\ N >= 2
    /\ mermaid_blocks[1].start_pos > 0
    /\ mermaid_blocks[1].end_pos < mermaid_blocks[2].start_pos
    /\ mermaid_blocks[N].end_pos <= Len(content)

\* The text between the tag of block k and its closing fence.
Inner(k) ==
    SubSeq(content, mermaid_blocks[k].start_pos + Len(OPEN_FENCE) + 1,
           mermaid_blocks[k].end_pos - Len(FENCE))

\* C19: the span of every block starts at an opening fence with the mermaid
\* tag and ends with the first fence behind the tag; the block text is the
\* text between them, trimmed, and holds no fence; no span lies inside another.
C19_FirstClosingFence ==
    Extracted => \A k \in 1..N :
        /\ StartsWithAt(content, mermaid_blocks[k].start_pos + 1, OPEN_FENCE)
        /\ StartsWithAt(content, mermaid_blocks[k].end_pos - Len(FENCE) + 1, FENCE)
        /\ ~OccursIn(content, FENCE, mermaid_blocks[k].start_pos + Len(OPEN_FENCE) + 1,
                     mermaid_blocks[k].end_pos - Len(FENCE))
        /\ mermaid_blocks[k].block_text = Strip(Inner(k))
        /\ ~OccursIn(mermaid_blocks[k].block_text, FENCE, 1,
                     Len(mermaid_blocks[k].block_text))
        /\ \A j \in 1..N :
              (/\ mermaid_blocks[k].start_pos <= mermaid_blocks[j].start_pos
               /\ mermaid_blocks[j].end_pos <= mermaid_blocks[k].end_pos) => j = k

C19_Witness ==
    /\ pc = "mkdir"
    /\ N = 1
    /\ mermaid_blocks[1].block_text /= <<>>
    /\ mermaid_blocks[1].block_text /= Inner(1)
    /\ OccursIn(content, FENCE, mermaid_blocks[1].end_pos + 1, Len(content))

SameArguments(a, b) ==
    /\ a.prefix = b.prefix
    /\ a.index = b.index
    /\ a.mermaid_code = b.mermaid_code
    /\ a.image_format = b.image_format

DifferOnlyIn(a, b, arg) ==
    /\ a[arg] /= b[arg]
    /\ \A other \in {"prefix", "index", "mermaid_code", "image_format"} \ {arg} :
          a[other] = b[other]

SingleChange(a, b) ==
    \E arg \in {"prefix", "index", "mermaid_code", "image_format"} : DifferOnlyIn(a, b, arg)

\* What is left of a prefix: its word characters, hyphens and dots, or the
\* default when there are none.
Sanitized(prefix) ==
    LET kept == SelectSeq(prefix, LAMBDA c : c \in WordChars \cup {"-", "."})
    IN  IF kept = <<>> THEN DEFAULT_PREFIX ELSE kept

\* C21 as stated: two calls of create_image_name that differ in exactly one of
\* prefix, index, diagram text and format return different filenames.
C21_AnySingleChangeChangesName ==
    \A j, k \in 1..Len(name_calls) :
        SingleChange(name_calls[j], name_calls[k]) =>
            name_calls[j].filename /= name_calls[k].filename

\* C21 as amended: a change of the index alone always changes the filename; a
\* change of the prefix alone changes it exactly when the sanitized prefixes
\* differ, a change of the text alone exactly when the 8-character digests
\* differ, a change of the format alone exactly when the lower-cased formats
\* differ.
C21_SingleChangeChangesNameUnlessCollapsed ==
    \A j, k \in 1..Len(name_calls) :
        LET a == name_calls[j]
            b == name_calls[k]
        IN  /\ DifferOnlyIn(a, b, "index") => a.filename /= b.filename
            /\ DifferOnlyIn(a, b, "prefix") =>
                  (a.filename /= b.filename <=> Sanitized(a.prefix) /= Sanitized(b.prefix))
            /\ DifferOnlyIn(a, b, "mermaid_code") =>
                  (a.filename /= b.filename
                      <=> Md5Hex8(a.mermaid_code) /= Md5Hex8(b.mermaid_code))
            /\ DifferOnlyIn(a, b, "image_format") =>
                  (a.filename /= b.filename
                      <=> Lower(a.image_format) /= Lower(b.image_format))

C21_Witness ==
    /\ Len(name_calls) = 2
    /\ DifferOnlyIn(name_calls[1], name_calls[2], "index")
    /\ name_calls[1].mermaid_code = <<"A">>
    /\ name_calls[1].filename /= name_calls[2].filename

\* The characters of a separator of path components.
PathSeparators == {"/", "\\"}

\* C22: the filename is the sanitized prefix, a hyphen, the index, a hyphen,
\* the 8-character digest of the text, a dot and the lower-cased format; the
\* sanitized prefix is the prefix without the characters that are no word
\* character, hyphen or dot, in their order, or "diagram" when none is left;
\* no path separator of the prefix is in the result.
C22_NameFormat ==
    \A k \in 1..Len(name_calls) :
        LET call == name_calls[k]
            name == call.filename
            expected == <<"-", ToString(call.index), "-", Md5Hex8(call.mermaid_code), ".",
                          Lower(call.image_format)>>
            head == SubSeq(name, 1, Len(name) - Len(expected))
            tail == SubSeq(name, Len(name) - Len(expected) + 1, Len(name))
            kept == SelectSeq(call.prefix, LAMBDA c : c \in WordChars \cup {"-", "."})
        IN  /\ Len(name) > Len(expected)
            /\ tail = expected
            /\ \A q \in 1..Len(head) : head[q] \in WordChars \cup {"-", "."}
            /\ kept /= <<>> => head = kept
            /\ kept = <<>> => head = DEFAULT_PREFIX
            /\ IsSubsequence(head, call.prefix) \/ head = DEFAULT_PREFIX
            /\ \A q \in 1..Len(head) : head[q] \notin PathSeparators

C22_Witness ==
    /\ Len(name_calls) = 2
    /\ name_calls[1].prefix = <<"/">>
    /\ name_calls[1].filename =
           DEFAULT_PREFIX \o <<"-", "1", "-", Md5Hex8(<<>>), ".", "gif">>
    /\ name_calls[2].prefix = <<"a", " ", "/", "b">>
    /\ name_calls[2].filename =
           <<"a", "b", "-", "2", "-", Md5Hex8(<<"A">>), ".", "svg">>
    /\ name_calls[2].image_format = "SVG"

\* The tags of the keyword table.
TypeTags == {type_map[k].type : k \in 1..Len(type_map)}

\* The stripped lines of a text, as the loop of the classifier sees them.
StrippedLines(text) ==
    LET lines == SplitLines(Strip(text), <<>>)
    IN  [q \in 1..Len(lines) |-> Strip(lines[q])]

\* A stripped line the loop does not pass over.
Significant(line) == line /= <<>> /\ ~(Len(line) >= 2 /\ SubSeq(line, 1, 2) = COMMENT_MARK)

IsPrefix(p, s) == Len(p) <= Len(s) /\ SubSeq(s, 1, Len(p)) = p

\* The first line of a text that is neither blank nor a comment, "" if none.
FirstRelevant(text) ==
    LET lines == StrippedLines(text)
        found == {q \in 1..Len(lines) : Significant(lines[q])}
    IN  IF found = {} THEN <<>>
        ELSE lines[CHOOSE q \in found : \A r \in found : q <= r]

\* The entries of the table whose keyword the line starts with.
Matching(line) == {k \in 1..Len(type_map) : IsPrefix(type_map[k].keyword, line)}

\* C23: every call returns one tag: the tag of the first table entry whose
\* keyword is a prefix of the first non-blank, non-comment line, flowchart
\* when no entry matches (empty, blank and comment-only texts included);
\* both state-diagram keywords carry one tag; every matching entry carries
\* the returned tag, so no order of the entries gives another result.
C23_ClassifierTotal ==
    type_call.returned =>
        LET line == FirstRelevant(type_call.mermaid_code)
            hits == Matching(line)
        IN  /\ type_call.type \in TypeTags
            /\ hits = {} => type_call.type = "flowchart"
            /\ hits /= {} =>
                  type_call.type = type_map[CHOOSE k \in hits : \A r \in hits : k <= r].type
            /\ \A k \in hits : type_map[k].type = type_call.type
            /\ type_map[3].type = type_map[4].type

C23_Witness ==
    /\ type_call.returned
    /\ type_call.mermaid_code =
           COMMENT_MARK \o <<"p", "i", "e", "\n">> \o type_map[3].keyword \o <<" ", "T", "D">>
    /\ Cardinality(Matching(FirstRelevant(type_call.mermaid_code))) = 2
    /\ type_call.type = "statediagram"

\* The step taken leads from one of the steps named to the step named.
Enters(step, from) == (pc' = step /\ pc /= step) => pc \in from

\* C24: the steps follow one another as validate, read, extract, ensure the
\* image directory, then name, dispatch, record for each block, then rebuild:
\* the directory is made only at its step, after the file was read and a
\* block was found; a dispatch needs the directory; the rebuild is entered
\* once, after the outcome of the last block was recorded, and left only by
\* returning; a run without blocks leaves the directory as it was.
C24_StepOrder ==
    /\ [][/\ Enters("read", {"validate"})
          /\ Enters("extract", {"read"})
          /\ Enters("mkdir", {"extract"})
          /\ Enters("name", {"mkdir", "record"})
          /\ Enters("dispatch", {"name"})
          /\ Enters("record", {"dispatch"})
          /\ Enters("afterloop", {"record"})
          /\ Enters("rebuild", {"afterloop"})
          /\ (image_dir_state' /= image_dir_state) =>
                /\ pc = "mkdir"
                /\ input_file.kind = "file" /\ content = input_file.content
                /\ N >= 1
          /\ (dispatched' /= dispatched) =>
                /\ pc = "dispatch"
                /\ image_dir_state = "present"
          /\ (pc' = "afterloop") =>
                /\ i = N
                /\ Len(image_paths_info') = N
                /\ Len(dispatched) = N
          /\ (pc = "rebuild") => pc' \in {"rebuild", "returned"}
          /\ (pc \in {"afterloop", "rebuild", "returned"}) => dispatched' = dispatched
          /\ (pc = "returned") => pc' = "returned"]_vars
    /\ [](/\ (Returned /\ N = 0) => (image_dir_state /= "present" /\ dispatched = <<>>)
          /\ (pc \in {"name", "dispatch", "record", "afterloop", "rebuild"}) =>
                (image_dir_state = "present" /\ N >= 1)
          /\ Completed => (image_dir_state = "present" /\ Len(dispatched) = N))

C24_Witness ==
    /\ Completed
    /\ N = 2
    /\ dispatched = <<1, 2>>
    /\ render_results = <<FALSE, TRUE>>
    /\ image_dir_state = "present"
    /\ stats.new_content /= content

\* The index a filename carries: what stands between the prefix and the digest.
IndexPart(name) == SubSeq(name, Len(DEFAULT_PREFIX) + 1, Len(DEFAULT_PREFIX) + 3)

\* The output path block k of the run is rendered to.
PathOfBlock(k) ==
    JoinPath(abs_image_dir,
             create_image_name(DEFAULT_PREFIX, k, mermaid_blocks[k].block_text, image_format))

NoDuplicate(seq) == \A j, k \in 1..Len(seq) : j /= k => seq[j] /= seq[k]

\* C26: the block the loop is at, the k-th of the document, has a filename
\* carrying k, whatever the earlier outcomes were; its output path differs from
\* the path of every other block of the run, blocks with the same text
\* included; generated_image_paths never holds a path twice.
C26_IndexedNamesDistinct ==
    /\ (pc \in {"dispatch", "record"}) =>
          /\ IndexPart(image_name) = <<"-", ToString(i), "-">>
          /\ i = Len(render_results) + (IF pc = "dispatch" THEN 1 ELSE 0)
          /\ \A k \in 1..N : k /= i => PathOfBlock(k) /= OutputPath
          /\ \A k \in 1..Len(stats.generated_image_paths) :
                stats.generated_image_paths[k] /= OutputPath
    /\ NoDuplicate(stats.generated_image_paths)

C26_Witness ==
    /\ Completed
    /\ N = 2
    /\ mermaid_blocks[1].block_text = mermaid_blocks[2].block_text
    /\ render_results = <<TRUE, TRUE>>
    /\ Len(stats.generated_image_paths) = 2
    /\ stats.generated_image_paths[1] /= stats.generated_image_paths[2]

\* The terminal states of a run.
Done == Returned /\ stats.error = NONE /\ N >= 1
DoneNoOp == Returned /\ stats.error = NONE /\ N = 0
Error == Returned /\ stats.error /= NONE

\* The function is at one of its steps.
Running ==
    pc \in {"start", "config", "validate", "read", "extract", "mkdir", "name", "dispatch",
            "record", "afterloop", "rebuild"}

\* C25: a run that has left the steps of the function stands in Done,
\* Done-NoOp or Error; no block is dispatched twice and there are never more
\* dispatches than blocks.
C25_EndsInTerminalState ==
    /\ ~Running => (Done \/ DoneNoOp \/ Error)
    /\ NoDuplicate(dispatched)
    /\ Len(dispatched) <= N

\* The run at hand has ended as the recorded run r did, block by block, and
\* was made with the same options.
SameRun(r) ==
    /\ ~Running
    /\ r.outcomes = render_results
    /\ r.use_html_wrapper = use_html_wrapper

\* C27: a run on the same document with the same options and the same
\* outcome of every backend call as an earlier run returns what the earlier
\* run returned (counts, new_content, generated_image_paths, error and the
\* other fields), whatever runs there were before or between them and whatever
\* they left on disk.
C27_NoStateBetweenRuns ==
    \A k \in 1..Len(earlier_runs) :
        LET r == earlier_runs[k]
        IN  /\ SameRun(r) =>
                  /\ r.raised = (pc = "raised")
                  /\ Returned => r.stats = stats
            /\ \A j \in 1..Len(earlier_runs) :
                  (/\ earlier_runs[j].outcomes = r.outcomes
                   /\ earlier_runs[j].use_html_wrapper = r.use_html_wrapper
                   /\ ~r.raised /\ ~earlier_runs[j].raised) =>
                      earlier_runs[j].stats = r.stats

C27_Witness ==
    /\ Len(earlier_runs) = 1
    /\ Completed
    /\ N = 2
    /\ render_results = <<TRUE, FALSE>>
    /\ SameRun(earlier_runs[1])
    /\ earlier_runs[1].stats = stats
    /\ stats.successful_conversions = 1
    /\ \E path \in DOMAIN files : files[path] = "nonempty"

\* The command line program has exited after a run that reported no error
\* of its own and at least one failed block.
ExitedAfterPartialFailure ==
    /\ cli.step = "exited"
    /\ Returned
    /\ stats.error = NONE
    /\ stats.failed_conversions >= 1

ListedImages == {stats.generated_image_paths[k] : k \in 1..Len(stats.generated_image_paths)}

C29_OneBackgroundRun ==
    /\ [][/\ (gui'.running > gui.running) =>
                (gui.is_processing /\ gui.ui = "starting" /\ gui.running = 0)
          /\ (~gui.is_processing /\ gui'.is_processing) =>
                (gui.running = 0 /\ gui'.running = 0 /\ gui'.ui = "starting"
                 /\ gui.after_queue = <<>>)
          /\ (gui.is_processing /\ ~gui'.is_processing) =>
                /\ gui.running = 0
                /\ gui.handed = gui.started
                /\ gui.after_queue /= <<>> \/ gui.ui = "dialog"
                /\ gui'.after_queue = <<>> /\ gui'.ui = "idle"]_vars
    /\ [](/\ gui.running <= 1
          /\ gui.running = 1 => gui.is_processing
          /\ gui.ui = "starting" => (gui.is_processing /\ gui.running = 0)
          /\ Len(gui.after_queue) + gui.running + (IF gui.ui = "dialog" THEN 1 ELSE 0) <= 1
          /\ (gui.window = "open" /\ ~gui.is_processing) =>
                (gui.running = 0 /\ gui.started = gui.resets))

\* A click while the worker runs was refused.
C29_Witness ==
    /\ gui.last = "busy"
    /\ gui.running = 1
    /\ gui.is_processing
    /\ gui.clicks >= 2
    /\ gui.started = 1

\* The UI is as before the conversion.
UiReset == ~gui.is_processing /\ gui.convert_button = "normal"

\* C30: while the window stays open, every conversion that was started is
\* followed by the reset of the UI, whatever the worker handed back and
\* whatever the user answered.
C30_ConversionEndsWithReset ==
    gui.is_processing ~> (UiReset \/ gui.window = "closed")

\* The second conversion of a window ended with the rollback.
C30_Witness ==
    /\ gui.window = "open"
    /\ gui.last = "rolled back"
    /\ gui.resets = 2
    /\ gui.started = 2
    /\ UiReset

====
